---- MODULE Spec2Model ----
(***************************************************************************)
(* Model of the cvfeature wrapper: Detector, Matcher and MatchHandler.     *)
(* The repository holds two variants of the header, src/unnamed/part_000   *)
(* and src/feature.hpp; the variable build says which one main.cpp         *)
(* includes.  Ratios are counted in tenths (One = 1.f, Half = 0.5f).       *)
(* OpenCV is the environment: a descriptor is one small integer, an image  *)
(* is an identifier, and detectAndCompute / match / drawMatches / vconcat  *)
(* are modelled by what the library does on such values.                   *)
(***************************************************************************)
EXTENDS Integers, Sequences, FiniteSets, TLC

(* ------------------------------ bounds -------------------------------- *)
MaxCalls == 4
NumImages == 2
NumHandlers == 2

(* ----------------------------- constants ------------------------------ *)
One == 10
Half == 5
DefaultMaxHeight == 1000

Builds == {"part_000", "feature_hpp"}
HandlerIds == 1..NumHandlers
NoImage == 0
Images == 1..NumImages
\* a handler slot in which no object has been constructed
NoHandler ==
  [constructed |-> FALSE, referDets |-> << >>, inputDets |-> << >>,
   matchers |-> << >>, acceptRatio |-> 0]

\* deltas passed to ChangeAcceptRatio, in tenths: +0.8, -2.0, -0.5
Deltas == {8, 0 - 20, 0 - 5}

\* name lists handed to the constructor (recognized and unrecognized names,
\* equal and unequal lengths)
FeatureLists ==
  { <<"orb">>, <<"sift", "brisk">>, <<"sift", "akaze">>,
    <<"kaze", "orb", "surf">> }
MatcherLists ==
  { <<"bf">>, <<"flann", "bf">>, <<"bf", "knn">>, <<"flann">> }

Names ==
  {"sift", "surf", "orb", "kaze", "brisk", "akaze", "SIFT", "flann", "bf",
   "knn", ""}

Min(a, b) == IF b < a THEN b ELSE a
Max(a, b) == IF a < b THEN b ELSE a
Abs(a) == IF a < 0 THEN 0 - a ELSE a
Range(s) == {s[i] : i \in 1..Len(s)}

(* ------------------------------ Detector ------------------------------ *)
\* Detector(name, feature): image, keypts and descriptors start empty
Detector(name, feature) ==
  [name |-> name, feature |-> feature, image |-> NoImage, keypts |-> 0,
   descriptors |-> << >>]

\* DetectorFactory with one more name accepted
DetectorFactoryAkaze(name) ==
  IF name \in {"sift", "surf", "orb", "kaze", "brisk", "akaze"}
    THEN [ok |-> TRUE, val |-> Detector(name, "SIFT")]
    ELSE [ok |-> FALSE, val |-> Detector(name, "none")]

DetectorFactory(name) ==
  IF name = "sift" THEN [ok |-> TRUE, val |-> Detector(name, "SIFT")]
  ELSE IF name = "surf" THEN [ok |-> TRUE, val |-> Detector(name, "SURF")]
  ELSE IF name = "orb" THEN [ok |-> TRUE, val |-> Detector(name, "ORB")]
  ELSE IF name = "kaze" THEN [ok |-> TRUE, val |-> Detector(name, "KAZE")]
  ELSE IF name = "brisk" THEN [ok |-> TRUE, val |-> Detector(name, "BRISK")]
  ELSE [ok |-> FALSE, val |-> Detector(name, "none")]

\* algorithms of the library whose descriptors are bit strings
BinaryFeatures == {"ORB", "BRISK"}

FeatureCode(feature) ==
  CASE feature = "SIFT" -> 0
    [] feature = "SURF" -> 1
    [] feature = "ORB" -> 2
    [] feature = "KAZE" -> 3
    [] feature = "BRISK" -> 4
    [] OTHER -> 0

\* feature->detectAndCompute(image, Mat(), keypts, descriptors): a fixed
\* function of the algorithm and the image; an image has 3 or 2 keypoints
LibDetectAndCompute(feature, image) ==
  [k \in 1..(2 + (image % 2)) |-> (image * 3 + k * k + FeatureCode(feature)) % 8]

DetectAndCompute(det, image) ==
  [det EXCEPT !.image = image,
              !.keypts = Len(LibDetectAndCompute(det.feature, image)),
              !.descriptors = LibDetectAndCompute(det.feature, image)]

(* ------------------------------ Matcher ------------------------------- *)
Matcher(name, matcher) == [name |-> name, matcher |-> matcher, matches |-> << >>]

\* part_000: the descriptor name picks the index / the norm
MatcherFactoryPart000(name, descName) ==
  IF name = "flann"
    THEN IF descName = "orb"
           THEN [ok |-> TRUE, val |-> Matcher(name, "flann_lsh")]
           ELSE [ok |-> TRUE, val |-> Matcher(name, "flann_default")]
  ELSE IF name = "bf"
    THEN IF descName = "orb"
           THEN [ok |-> TRUE, val |-> Matcher(name, "bf_hamming")]
           ELSE [ok |-> TRUE, val |-> Matcher(name, "bf_l1")]
  ELSE [ok |-> FALSE, val |-> Matcher(name, "none")]

\* feature.hpp: one argument, the descriptor-dependent branches are
\* commented out
MatcherFactoryFeatureHpp(name) ==
  IF name = "flann" THEN [ok |-> TRUE, val |-> Matcher(name, "flann_default")]
  ELSE IF name = "bf" THEN [ok |-> TRUE, val |-> Matcher(name, "bf_l1")]
  ELSE [ok |-> FALSE, val |-> Matcher(name, "none")]

MatcherFactory(b, name, descName) ==
  IF b = "part_000" THEN MatcherFactoryPart000(name, descName)
  ELSE MatcherFactoryFeatureHpp(name)

\* metric of the library matcher object
MetricOf(matcher) ==
  IF matcher \in {"bf_hamming", "flann_lsh"} THEN "hamming" ELSE "l1l2"

Bit(a, k) == (a \div (2 ^ k)) % 2
Hamming(a, b) ==
  Abs(Bit(a, 0) - Bit(b, 0)) + Abs(Bit(a, 1) - Bit(b, 1))
    + Abs(Bit(a, 2) - Bit(b, 2))

Distance(metric, a, b) == IF metric = "hamming" THEN Hamming(a, b) ELSE Abs(a - b)

\* matcher->match(query, train, matches): one DMatch per query descriptor,
\* to its nearest train descriptor (first of the nearest); none when the
\* train set is empty
LibMatch(matcher, query, train) ==
  IF Len(train) = 0 THEN << >>
  ELSE [q \in 1..Len(query) |->
         LET d(t) == Distance(MetricOf(matcher), query[q], train[t])
             best == CHOOSE t \in 1..Len(train) :
                       \A u \in 1..Len(train) :
                         d(t) < d(u) \/ (d(t) = d(u) /\ t <= u)
         IN [queryIdx |-> q, trainIdx |-> best, distance |-> d(best)]]

\* std::sort(matches.begin(), matches.end()): DMatch::operator< compares
\* the distance only and the sort is not stable, so every ordering of the
\* ties is a possible outcome
RECURSIVE SortedOrders(_, _)
SortedOrders(s, idx) ==
  IF idx = {} THEN {<< >>}
  ELSE UNION { { <<s[i]>> \o rest : rest \in SortedOrders(s, idx \ {i}) } :
               i \in {i \in idx : \A j \in idx : s[i].distance <= s[j].distance} }
StdSort(s) == SortedOrders(s, 1..Len(s))

\* const int numGoodMatches = matches.size() * AcceptRatio();
NumGoodMatches(size, ratio) == (size * ratio) \div One

\* matches.erase(matches.begin() + numGoodMatches, matches.end());
Erase(s, n) == SubSeq(s, 1, n)

\* part_000: works on the member matches
MatchDescriptorsPart000(m, referDesc, inputDesc, ratio) ==
  { [m EXCEPT !.matches = Erase(sorted, NumGoodMatches(Len(sorted), ratio))] :
      sorted \in StdSort(LibMatch(m.matcher, inputDesc, referDesc)) }

\* feature.hpp: the local vector matches shadows the member; the member is
\* never written
MatchDescriptorsFeatureHpp(m, referDesc, inputDesc, ratio) ==
  LET matches == { Erase(sorted, NumGoodMatches(Len(sorted), ratio)) :
                     sorted \in StdSort(LibMatch(m.matcher, inputDesc, referDesc)) }
  IN {m}

\* the possible values of the Matcher object after the call
MatchDescriptors(b, m, referDesc, inputDesc, ratio) ==
  IF b = "part_000" THEN MatchDescriptorsPart000(m, referDesc, inputDesc, ratio)
  ELSE MatchDescriptorsFeatureHpp(m, referDesc, inputDesc, ratio)


(* ---------------------------- MatchHandler ---------------------------- *)
VARIABLES build, handlers, globalRatio, pc, calls, ret

vars == <<build, handlers, globalRatio, pc, calls, ret>>

NoFrame == [rows |-> 0, cols |-> 0, type |-> "8UC1", lines |-> 0, text |-> ""]
NoComposite == [frames |-> << >>, rows |-> 0, cols |-> 0, resized |-> FALSE]

\* what the last call was and how it ended
Ret(op, h, features, matcher, image, change, outcome, value) ==
  [op |-> op, h |-> h, features |-> features, matcher |-> matcher,
   image |-> image, change |-> change, fails |-> << >>, outcome |-> outcome,
   value |-> value]

\* for (feat : features) dets.push_back(Detector::Factory(feat)); a throw
\* of the factory leaves the loop
RECURSIVE PushDetectors(_, _, _)
PushDetectors(features, i, acc) ==
  IF i > Len(features) THEN [ok |-> TRUE, val |-> acc]
  ELSE IF DetectorFactory(features[i]).ok
         THEN PushDetectors(features, i + 1,
                            Append(acc, DetectorFactory(features[i]).val))
         ELSE [ok |-> FALSE, val |-> acc]

\* part_000: Matcher::Factory(matcher[i], inputDets[i].getResult().name);
\* feature.hpp: Matcher::Factory(match)
RECURSIVE PushMatchers(_, _, _, _, _)
PushMatchers(b, matcher, inputDets, i, acc) ==
  IF i > Len(matcher) THEN [ok |-> TRUE, val |-> acc]
  ELSE LET m == MatcherFactory(b, matcher[i], inputDets[i].name)
       IN IF m.ok
            THEN PushMatchers(b, matcher, inputDets, i + 1, Append(acc, m.val))
            ELSE [ok |-> FALSE, val |-> acc]

\* MatchHandler::MatchHandler.  The build sets no NDEBUG (CMakeLists.txt has
\* no build type), so the assert is live.  A throw unwinds the members: no
\* object exists afterwards.
MatchHandlerCtorWeakAssert(b, features, matcher) ==
  IF Len(features) < Len(matcher) THEN [outcome |-> "assert", val |-> NoHandler]
  ELSE LET refer == PushDetectors(features, 1, << >>)
           input == PushDetectors(features, 1, << >>)
       IN IF ~refer.ok \/ ~input.ok THEN [outcome |-> "throw", val |-> NoHandler]
          ELSE LET ms == PushMatchers(b, matcher, input.val, 1, << >>)
               IN IF ~ms.ok THEN [outcome |-> "throw", val |-> NoHandler]
                  ELSE [outcome |-> "ok",
                        val |-> [constructed |-> TRUE,
                                 referDets |-> refer.val,
                                 inputDets |-> input.val,
                                 matchers |-> ms.val,
                                 acceptRatio |-> Half]]

MatchHandlerCtor(b, features, matcher) ==
  IF Len(features) # Len(matcher) THEN [outcome |-> "assert", val |-> NoHandler]
  ELSE LET refer == PushDetectors(features, 1, << >>)
           input == PushDetectors(features, 1, << >>)
       IN IF ~refer.ok \/ ~input.ok THEN [outcome |-> "throw", val |-> NoHandler]
          ELSE LET ms == PushMatchers(b, matcher, input.val, 1, << >>)
               IN IF ~ms.ok THEN [outcome |-> "throw", val |-> NoHandler]
                  ELSE [outcome |-> "ok",
                        val |-> [constructed |-> TRUE,
                                 referDets |-> refer.val,
                                 inputDets |-> input.val,
                                 matchers |-> ms.val,
                                 acceptRatio |-> Half]]

Init ==
  /\ build \in Builds
  /\ handlers = [h \in HandlerIds |-> NoHandler]
  /\ globalRatio = Half
  /\ pc = "running"
  /\ calls = 0
  /\ ret = Ret("none", 0, << >>, << >>, NoImage, 0, "ok", NoComposite)

CanCall == pc = "running" /\ calls < MaxCalls

Construct(h, features, matcher) ==
  /\ CanCall
  /\ ~handlers[h].constructed
  /\ \A g \in HandlerIds : g < h => handlers[g].constructed
  /\ LET r == MatchHandlerCtor(build, features, matcher)
     IN /\ handlers' = IF r.outcome = "ok" THEN [handlers EXCEPT ![h] = r.val]
                       ELSE handlers
        /\ pc' = IF r.outcome = "assert" THEN "aborted" ELSE pc
        /\ ret' = Ret("MatchHandler", h, features, matcher, NoImage, 0,
                      r.outcome, NoComposite)
  /\ calls' = calls + 1
  /\ UNCHANGED <<build, globalRatio>>

\* SetRefImage running the detection on the input side as well
SetRefImageBothSides(h, refimg) ==
  /\ CanCall
  /\ handlers[h].constructed
  /\ handlers' = [handlers EXCEPT
                    ![h].referDets =
                      [i \in 1..Len(@) |-> DetectAndCompute(@[i], refimg)],
                    ![h].inputDets =
                      [i \in 1..Len(@) |-> DetectAndCompute(@[i], refimg)]]
  /\ ret' = Ret("SetRefImage", h, << >>, << >>, refimg, 0, "ok", NoComposite)
  /\ calls' = calls + 1
  /\ UNCHANGED <<build, globalRatio, pc>>

SetRefImage(h, refimg) ==
  /\ CanCall
  /\ handlers[h].constructed
  /\ handlers' = [handlers EXCEPT ![h].referDets =
                    [i \in 1..Len(@) |-> DetectAndCompute(@[i], refimg)]]
  /\ ret' = Ret("SetRefImage", h, << >>, << >>, refimg, 0, "ok", NoComposite)
  /\ calls' = calls + 1
  /\ UNCHANGED <<build, globalRatio, pc>>

\* for (i = 0; i < matchers.size(); i++) matchers[i].MatchDescriptors(
\*   referDets[i].getResult().descriptors, inputDets[i].getResult().descriptors):
\* the possible values of matchers after the loop
RECURSIVE MatchAll(_, _, _, _, _, _)
MatchAll(b, matchers, referDets, inputDets, ratio, i) ==
  IF i > Len(matchers) THEN {<< >>}
  ELSE { <<m>> \o rest :
           m \in MatchDescriptors(b, matchers[i], referDets[i].descriptors,
                                  inputDets[i].descriptors, ratio),
           rest \in MatchAll(b, matchers, referDets, inputDets, ratio, i + 1) }

\* MatchDescriptors has no return statement although it returns a
\* reference: flowing off its end is undefined.  The outcomes are a normal
\* return (the value is never used) or the process dying at the end of the
\* k-th call.
MatchImage(h, inpimg) ==
  /\ CanCall
  /\ handlers[h].constructed
  /\ LET hd == handlers[h]
         n == Len(hd.matchers)
         dets == [i \in 1..n |-> DetectAndCompute(hd.inputDets[i], inpimg)]
     IN \E ms \in MatchAll(build, hd.matchers, hd.referDets, dets, globalRatio, 1) :
          \/ /\ handlers' = [handlers EXCEPT ![h].inputDets = dets,
                                             ![h].matchers = ms]
             /\ pc' = pc
             /\ ret' = Ret("MatchImage", h, << >>, << >>, inpimg, 0, "ok",
                           NoComposite)
          \/ \E k \in 1..n :
               /\ handlers' =
                    [handlers EXCEPT ![h].inputDets = dets,
                                     ![h].matchers =
                                       [i \in 1..n |-> IF i <= k THEN ms[i]
                                                       ELSE hd.matchers[i]]]
               /\ pc' = "aborted"
               /\ ret' = Ret("MatchImage", h, << >>, << >>, inpimg, 0, "ub",
                             NoComposite)
  /\ calls' = calls + 1
  /\ UNCHANGED <<build, globalRatio>>

\* ChangeAcceptRatio without the lower clamp
ChangeAcceptRatioNoFloor(h, change) ==
  /\ CanCall
  /\ handlers[h].constructed
  /\ LET acceptRatio == Min(handlers[h].acceptRatio + change, One)
     IN /\ handlers' = [handlers EXCEPT ![h].acceptRatio = acceptRatio]
        /\ globalRatio' = acceptRatio
  /\ ret' = Ret("ChangeAcceptRatio", h, << >>, << >>, NoImage, change, "ok",
                NoComposite)
  /\ calls' = calls + 1
  /\ UNCHANGED <<build, pc>>

\* ChangeAcceptRatio cutting the stored match lists to the new ratio
ChangeAcceptRatioRetroactive(h, change) ==
  /\ CanCall
  /\ handlers[h].constructed
  /\ LET acceptRatio == Max(Min(handlers[h].acceptRatio + change, One), 0)
     IN /\ handlers' =
             [handlers EXCEPT
                ![h].acceptRatio = acceptRatio,
                ![h].matchers =
                  [i \in 1..Len(@) |->
                     [@[i] EXCEPT !.matches =
                        Erase(@, Min(Len(@), NumGoodMatches(Len(@), acceptRatio)))]]]
        /\ globalRatio' = acceptRatio
  /\ ret' = Ret("ChangeAcceptRatio", h, << >>, << >>, NoImage, change, "ok",
                NoComposite)
  /\ calls' = calls + 1
  /\ UNCHANGED <<build, pc>>

ChangeAcceptRatio(h, change) ==
  /\ CanCall
  /\ handlers[h].constructed
  /\ LET acceptRatio == Max(Min(handlers[h].acceptRatio + change, One), 0)
     IN /\ handlers' = [handlers EXCEPT ![h].acceptRatio = acceptRatio]
        /\ globalRatio' = acceptRatio
  /\ ret' = Ret("ChangeAcceptRatio", h, << >>, << >>, NoImage, change, "ok",
                NoComposite)
  /\ calls' = calls + 1
  /\ UNCHANGED <<build, pc>>


(* ------------------------------ drawing ------------------------------- *)
\* the cv::Mat header of an image
Rows(image) == IF image = NoImage THEN 0 ELSE 2
Cols(image) == IF image = NoImage THEN 0 ELSE image + 1

\* how the drawMatches call of one pipeline ends: it returns, or it throws
\* a cv::Exception before or after the output image has been allocated
DrawFailures == {"none", "before_create", "after_create"}
MaxHeights == {DefaultMaxHeight, 3}

\* cv::drawMatches(img1, keypts1, img2, keypts2, matches, outImg)
LibDrawMatches(img1, img2, matches, fail) ==
  IF fail = "before_create" THEN [ok |-> FALSE, outImg |-> NoFrame]
  ELSE [ok |-> fail = "none",
        outImg |-> [rows |-> Max(Rows(img1), Rows(img2)),
                    cols |-> Cols(img1) + Cols(img2),
                    type |-> "8UC3",
                    lines |-> IF fail = "none" THEN Len(matches) ELSE 0,
                    text |-> ""]]

\* cv::putText(img, text, ...): nothing to draw on an empty image
LibPutText(img, text) == IF img.rows = 0 THEN img ELSE [img EXCEPT !.text = text]

\* part_000: the exception of drawMatches is caught and logged, the code
\* goes on with whatever matchimg holds; maxheight is 0, so the resize
\* guard is never true
DrawSingleResultPart000(refDet, inpDet, match, fail) ==
  LET matchimg == LibDrawMatches(inpDet.image, refDet.image, match.matches,
                                 fail).outImg
  IN [ok |-> TRUE, resimg |-> LibPutText(matchimg, inpDet.name)]

\* feature.hpp: no try block, the exception leaves the function
DrawSingleResultFeatureHpp(refDet, inpDet, match, fail) ==
  LET drawn == LibDrawMatches(inpDet.image, refDet.image, match.matches, fail)
  IN IF drawn.ok THEN [ok |-> TRUE, resimg |-> LibPutText(drawn.outImg, inpDet.name)]
     ELSE [ok |-> FALSE, resimg |-> NoFrame]

DrawSingleResult(b, refDet, inpDet, match, fail) ==
  IF b = "part_000" THEN DrawSingleResultPart000(refDet, inpDet, match, fail)
  ELSE DrawSingleResultFeatureHpp(refDet, inpDet, match, fail)

RECURSIVE SumRows(_, _)
SumRows(frames, i) ==
  IF i > Len(frames) THEN 0 ELSE frames[i].rows + SumRows(frames, i + 1)

\* cv::vconcat(src, dst): asserts that every src[i] has the column count
\* and the type of src[0]
LibVconcat(frames) ==
  IF \A i \in 1..Len(frames) :
       frames[i].cols = frames[1].cols /\ frames[i].type = frames[1].type
    THEN [ok |-> TRUE,
          dst |-> [frames |-> frames, rows |-> SumRows(frames, 1),
                   cols |-> IF Len(frames) = 0 THEN 0 ELSE frames[1].cols,
                   resized |-> FALSE]]
    ELSE [ok |-> FALSE, dst |-> NoComposite]

\* cv::resize(stackedResult, stackedResult, Size(cols/2, rows/2), ...)
LibResizeHalf(img) ==
  [img EXCEPT !.rows = @ \div 2, !.cols = @ \div 2, !.resized = TRUE]

\* MatchHandler::DrawMatchResult: the value returned or the exception
DrawMatchResultValue(b, hd, maxHeight, fails) ==
  LET n == Len(hd.matchers)
      single == [i \in 1..n |->
                   DrawSingleResult(b, hd.referDets[i], hd.inputDets[i],
                                    hd.matchers[i], fails[i])]
      stacked == LibVconcat([i \in 1..n |-> single[i].resimg])
  IN IF \E i \in 1..n : ~single[i].ok THEN [outcome |-> "throw", value |-> NoComposite]
     ELSE IF ~stacked.ok THEN [outcome |-> "throw", value |-> NoComposite]
     ELSE IF b = "part_000" /\ stacked.dst.rows > maxHeight
       THEN [outcome |-> "ok", value |-> LibResizeHalf(stacked.dst)]
     ELSE [outcome |-> "ok", value |-> stacked.dst]

\* drawn once both sides hold an image (a reference image was set and an
\* input image was matched)
DrawMatchResult(h, maxHeight, fails) ==
  /\ CanCall
  /\ handlers[h].constructed
  /\ \A i \in 1..Len(handlers[h].matchers) :
       /\ handlers[h].referDets[i].image # NoImage
       /\ handlers[h].inputDets[i].image # NoImage
  /\ LET r == DrawMatchResultValue(build, handlers[h], maxHeight, fails)
     IN ret' = [Ret("DrawMatchResult", h, << >>, << >>, NoImage, 0, r.outcome,
                    r.value) EXCEPT !.fails = fails]
  /\ calls' = calls + 1
  /\ UNCHANGED <<build, handlers, globalRatio, pc>>

Next ==
  \/ \E h \in HandlerIds, features \in FeatureLists, matcher \in MatcherLists :
       Construct(h, features, matcher)
  \/ \E h \in HandlerIds, refimg \in Images : SetRefImage(h, refimg)
  \/ \E h \in HandlerIds, inpimg \in Images : MatchImage(h, inpimg)
  \/ \E h \in HandlerIds, change \in Deltas : ChangeAcceptRatio(h, change)
  \/ \E h \in HandlerIds, maxHeight \in MaxHeights :
       \E fails \in [1..Len(handlers[h].matchers) -> DrawFailures] :
         DrawMatchResult(h, maxHeight, fails)

Spec == Init /\ [][Next]_vars


(* =============================== claims =============================== *)
RecognizedDetectors == {"sift", "surf", "orb", "kaze", "brisk"}
RecognizedMatchers == {"flann", "bf"}

Called(op) == ret.op = op
Returned(op) == ret.op = op /\ ret.outcome = "ok"
\* this step is a call of op
CallStep(op) == calls' = calls + 1 /\ ret'.op = op

IsSortedByDistance(s) ==
  \A i \in 1..(Len(s) - 1) : s[i].distance <= s[i + 1].distance

\* the raw matches of pipeline i of handler hd: the library's answer for the
\* input descriptors against the reference descriptors
RawMatches(hd, i) ==
  LibMatch(hd.matchers[i].matcher, hd.inputDets[i].descriptors,
           hd.referDets[i].descriptors)

KeepsLowestFraction(kept, raw, ratio) ==
  /\ Len(kept) = (Len(raw) * ratio) \div One
  /\ IsSortedByDistance(kept)
  /\ \A i, j \in 1..Len(kept) : i # j => kept[i] # kept[j]
  /\ Range(kept) \subseteq Range(raw)
  /\ \A d \in Range(raw) \ Range(kept) :
       \A k \in Range(kept) : k.distance <= d.distance

\* C1: when MatchImage has returned, every matcher of the handler holds
\* floor(rawMatchCount * ratio) matches, in non-decreasing distance order,
\* and they are the lowest-distance matches of the raw list.
C1_KeepsBestFraction ==
  Returned("MatchImage") =>
    \A i \in 1..Len(handlers[ret.h].matchers) :
      KeepsLowestFraction(handlers[ret.h].matchers[i].matches,
                          RawMatches(handlers[ret.h], i), globalRatio)

\* the statement of C1 on the part_000 variant alone
C1_OnPart000 == build = "part_000" => C1_KeepsBestFraction

ClampTo01(x) == IF x > One THEN One ELSE IF x < 0 THEN 0 ELSE x

\* C2: every ChangeAcceptRatio(delta) leaves the handler's tracked ratio at
\* min(1, max(0, previous + delta)), within [0,1], and the global ratio at
\* the same value; from 0.5, +0.8 gives 1.0 and -2.0 gives 0.0.
C2_RatioClamped ==
  [][CallStep("ChangeAcceptRatio") =>
       LET h == ret'.h
           before == handlers[h].acceptRatio
           after == handlers'[h].acceptRatio
       IN /\ after = ClampTo01(before + ret'.change)
          /\ after \in 0..One
          /\ globalRatio' = after
          /\ (before = Half /\ ret'.change = 8) => after = One
          /\ (before = Half /\ ret'.change = 0 - 20) => after = 0]_vars

\* the clamp has acted: +0.8 was applied and the ratios stand at 1.0
C2_Witness ==
  /\ Returned("ChangeAcceptRatio")
  /\ ret.change = 8
  /\ handlers[ret.h].acceptRatio = One
  /\ globalRatio = One

\* C3: when MatchImage(B) has returned, the match list stored in every
\* matcher is the ratio-filtered matches of B's descriptors against the
\* reference descriptors, whatever was matched before.
C3_StoredListIsLatest ==
  Returned("MatchImage") =>
    \A i \in 1..Len(handlers[ret.h].matchers) :
      LET hd == handlers[ret.h]
          descB == LibDetectAndCompute(hd.inputDets[i].feature, ret.image)
          raw == LibMatch(hd.matchers[i].matcher, descB,
                          hd.referDets[i].descriptors)
      IN hd.matchers[i].matches \in
           { SubSeq(sorted, 1, (Len(raw) * globalRatio) \div One) :
               sorted \in StdSort(raw) }

\* the statement of C3 on the part_000 variant alone
C3_OnPart000 == build = "part_000" => C3_StoredListIsLatest

\* C4: ChangeAcceptRatio leaves every stored match list and every detector
\* as they were.
C4_ChangeRatioFrame ==
  [][CallStep("ChangeAcceptRatio") =>
       \A h \in HandlerIds :
         /\ handlers'[h].matchers = handlers[h].matchers
         /\ handlers'[h].referDets = handlers[h].referDets
         /\ handlers'[h].inputDets = handlers[h].inputDets]_vars

\* a ratio change after a match: the stored list no longer has the length
\* the new ratio would give
C4_Witness ==
  /\ Returned("ChangeAcceptRatio")
  /\ \E i \in 1..Len(handlers[ret.h].matchers) :
       /\ Len(handlers[ret.h].matchers[i].matches) > 0
       /\ Len(handlers[ret.h].matchers[i].matches) #
            (Len(RawMatches(handlers[ret.h], i)) * globalRatio) \div One

PipelinesAligned(hd) ==
  /\ Len(hd.referDets) = Len(hd.inputDets)
  /\ Len(hd.inputDets) = Len(hd.matchers)
  /\ \A i \in 1..Len(hd.referDets) : hd.referDets[i].name = hd.inputDets[i].name

PipelineNames(hd) ==
  [i \in 1..Len(hd.matchers) |->
     <<hd.referDets[i].name, hd.inputDets[i].name, hd.matchers[i].name>>]

\* C5: the three lists of a handler always have one length, referDets[i]
\* and inputDets[i] carry the same feature name, matchers[i] is the matcher
\* requested at position i, and a construction from lists of different
\* lengths yields no handler.
C5_ParallelLists ==
  /\ [](\A h \in HandlerIds : PipelinesAligned(handlers[h]))
  /\ [](Called("MatchHandler") =>
          /\ Len(ret.features) # Len(ret.matcher) =>
               ret.outcome # "ok" /\ ~handlers[ret.h].constructed
          /\ ret.outcome = "ok" =>
               /\ handlers[ret.h].constructed
               /\ PipelineNames(handlers[ret.h]) =
                    [i \in 1..Len(ret.features) |->
                       <<ret.features[i], ret.features[i], ret.matcher[i]>>])
  /\ [][\A h \in HandlerIds :
          handlers[h].constructed =>
            /\ handlers'[h].constructed
            /\ PipelineNames(handlers'[h]) = PipelineNames(handlers[h])]_vars

\* a two-pipeline handler exists and a construction from 3 and 2 names has
\* just failed
C5_Witness ==
  /\ Called("MatchHandler")
  /\ Len(ret.features) = 3 /\ Len(ret.matcher) = 2
  /\ ret.outcome = "assert"
  /\ \E h \in HandlerIds :
       handlers[h].constructed /\ Len(handlers[h].matchers) = 2

AllRecognized(features, matcher) ==
  /\ Range(features) \subseteq RecognizedDetectors
  /\ Range(matcher) \subseteq RecognizedMatchers

\* C6: the factories succeed exactly for the recognized names, and a
\* construction with an unrecognized name at any position fails as a whole:
\* no handler exists afterwards, with fewer pipelines or otherwise.
C6_UnknownNameFails ==
  /\ \A n \in Names : DetectorFactory(n).ok <=> n \in RecognizedDetectors
  /\ \A n \in Names, d \in Names :
       MatcherFactory(build, n, d).ok <=> n \in RecognizedMatchers
  /\ Called("MatchHandler") =>
       /\ ~AllRecognized(ret.features, ret.matcher) =>
            ret.outcome # "ok" /\ ~handlers[ret.h].constructed
       /\ handlers[ret.h].constructed =>
            /\ Len(handlers[ret.h].referDets) = Len(ret.features)
            /\ Len(handlers[ret.h].inputDets) = Len(ret.features)
            /\ Len(handlers[ret.h].matchers) = Len(ret.matcher)

\* a construction whose second name is unrecognized has thrown
C6_Witness ==
  /\ Called("MatchHandler")
  /\ ret.outcome = "throw"
  /\ Len(ret.features) = 2
  /\ ret.features[1] \in RecognizedDetectors
  /\ ret.features[2] \notin RecognizedDetectors
  /\ ~handlers[ret.h].constructed

\* C7: when drawMatches fails for one of the N pipelines, DrawMatchResult
\* still returns a composite of N stacked frames, the other N-1 of them
\* normal frames.
C7_DrawFailureContained ==
  (/\ Called("DrawMatchResult")
   /\ Cardinality({i \in 1..Len(ret.fails) : ret.fails[i] # "none"}) = 1) =>
    /\ ret.outcome = "ok"
    /\ Len(ret.value.frames) = Len(handlers[ret.h].matchers)
    /\ \A i \in 1..Len(ret.fails) :
         ret.fails[i] = "none" =>
           /\ ret.value.frames[i].lines = Len(handlers[ret.h].matchers[i].matches)
           /\ ret.value.frames[i].text = handlers[ret.h].inputDets[i].name

\* C8: SetRefImage changes only the image, keypoints and descriptors of the
\* referDets entries; MatchImage leaves every referDets entry unchanged.
C8_ReferenceSideIndependent ==
  /\ [][CallStep("SetRefImage") =>
          \A h \in HandlerIds :
            /\ handlers'[h].inputDets = handlers[h].inputDets
            /\ handlers'[h].matchers = handlers[h].matchers
            /\ handlers'[h].acceptRatio = handlers[h].acceptRatio
            /\ h # ret'.h => handlers'[h].referDets = handlers[h].referDets
            /\ h = ret'.h =>
                 handlers'[h].referDets =
                   [i \in 1..Len(handlers[h].referDets) |->
                      [handlers[h].referDets[i] EXCEPT
                         !.image = ret'.image,
                         !.keypts = Len(LibDetectAndCompute(
                                           handlers[h].referDets[i].feature,
                                           ret'.image)),
                         !.descriptors = LibDetectAndCompute(
                                           handlers[h].referDets[i].feature,
                                           ret'.image)]]]_vars
  /\ [][CallStep("MatchImage") =>
          \A h \in HandlerIds :
            handlers'[h].referDets = handlers[h].referDets]_vars

\* an input image was matched against a different reference image
C8_Witness ==
  /\ Returned("MatchImage")
  /\ handlers[ret.h].referDets[1].image # NoImage
  /\ handlers[ret.h].inputDets[1].image # handlers[ret.h].referDets[1].image
  /\ handlers[ret.h].referDets[1].descriptors # handlers[ret.h].inputDets[1].descriptors

\* C9: every matcher uses the Hamming distance exactly when its pipeline's
\* descriptor algorithm produces binary descriptors, and a flann matcher
\* uses the LSH index exactly in that case.
C9_MetricFollowsDescriptor ==
  \A h \in HandlerIds :
    \A i \in 1..Len(handlers[h].matchers) :
      LET binary == handlers[h].inputDets[i].feature \in BinaryFeatures
          m == handlers[h].matchers[i]
      IN /\ (MetricOf(m.matcher) = "hamming") <=> binary
         /\ m.name = "flann" => ((m.matcher = "flann_lsh") <=> binary)

\* C10: the ratio a handler's matchers apply in MatchImage, the global one,
\* equals the handler's own tracked ratio.
C10_GlobalEqualsTracked ==
  Called("MatchImage") => globalRatio = handlers[ret.h].acceptRatio

====
